---- MODULE Spec2Model ----
(***************************************************************************)
(* makudoku-web (src/src/main.rs): the HTTP handlers over the SQLite store *)
(* (tables puzzles and puzzle_stats).  Every handler is a sequence of      *)
(* store statements; one statement is one atomic step, and the local       *)
(* computation that follows a statement belongs to that step.  Requests    *)
(* are served concurrently in NumReq slots.                                *)
(***************************************************************************)
EXTENDS Integers, Sequences, FiniteSets, TLC

\* ---------------------------------------------------------------- bounds
\* grid size (makudoku::NN is 81; scaled down so that grids can be enumerated)
NN == 3
\* longest list of variants a request carries
MaxVariants == 2
\* longest list of variants whose kinds are listed
MaxKinds == 4
\* requests served concurrently
NumReq == 2
\* requests received in one run
MaxRequests == 3
\* last instant of the clock
MaxNow == 1

Req == 1..NumReq
Instants == 0..MaxNow

\* Option<T>: None and Some(x)
None == <<>>
Some(x) == <<x>>
\* Option::unwrap_or
unwrap_or(o, default) == IF o = None THEN default ELSE o[1]

\* Utc::now().date_naive() of an instant; the clock moves a day at a time, so
\* that two readings of it are equal or at least a day apart
date_naive(t) == t + 1
Days == {date_naive(t) : t \in Instants}
\* the dates the admin requests name
Dates == {1, 2}

\* ------------------------------------------------------- request payloads
\* A JSON value of the stored "solution" array: a number or a string.
Num(n) == [k |-> "num", v |-> n]
Str == [k |-> "str", v |-> 0]

\* serde_json::Value::as_u64: Some for a non-negative integer only
as_u64(item) == IF item.k = "num" /\ item.v >= 0 THEN Some(item.v) ELSE None

\* the reference solution 1 2 3 ... (digits 1..9 cycling)
RefDigits == [i \in 1..NN |-> ((i - 1) % 9) + 1]
RefSolution == [i \in 1..NN |-> Num(RefDigits[i])]

\* puzzle_json documents a client can send: json is FALSE for text that is
\* not JSON, puzzle is FALSE when the "puzzle" string is missing, solution is
\* None when the "solution" array is missing, constraints are the "type"
\* strings of the "constraints" array.
Doc(j, p, s, c) == [json |-> j, puzzle |-> p, solution |-> s, constraints |-> c]
DocGood == Doc(TRUE, TRUE, Some(RefSolution), <<"king", "knight", "king">>)
DocNoSolution == Doc(TRUE, TRUE, None, <<>>)
DocShortSolution == Doc(TRUE, TRUE, Some(SubSeq(RefSolution, 1, NN - 1)), <<>>)
DocZeroDigit == Doc(TRUE, TRUE, Some([RefSolution EXCEPT ![NN] = Num(0)]), <<>>)
DocTenDigit == Doc(TRUE, TRUE, Some([RefSolution EXCEPT ![1] = Num(10)]), <<>>)
DocTextDigit == Doc(TRUE, TRUE, Some([RefSolution EXCEPT ![1] = Str]), <<>>)
DocNoPuzzle == Doc(TRUE, FALSE, Some(RefSolution), <<>>)
DocNotJson == Doc(FALSE, FALSE, None, <<>>)

\* ------------------------------------------------------------------ state
VARIABLES
    puzzles,    \* table puzzles: date_utc -> row
    stats,      \* table puzzle_stats: date_utc -> row
    now,        \* the clock (Utc::now())
    req,        \* request slot -> the request it serves and where it stands
    nreq,       \* requests received so far
    views_ok    \* date -> track requests answered 204 for it (history)

vars == <<puzzles, stats, now, req, nreq, views_ok>>

\* now_utc_string()
now_utc_string == now

\* a free slot
Idle == [pc |-> "idle", op |-> "none", date |-> 0, grid |-> <<>>, sol |-> <<>>,
         ow |-> None, body |-> None, resp |-> "none", nchk |-> 0, nslv |-> 0]

\* column defaults of a puzzle_stats row (the counters start at zero)
ZeroStats == [views |-> 0, checks |-> 0, solves |-> 0, last_seen_utc |-> 0]

\* UpsertStat as INSERT OR REPLACE: a row that exists is overwritten by the
\* inserted one instead of being incremented
UpsertStat_replace(s, d, col, t) ==
    [x \in DOMAIN s \cup {d} |->
        IF x = d THEN [ZeroStats EXCEPT ![col] = 1, !.last_seen_utc = t] ELSE s[x]]

\* UpsertStat that clears the rows of the other dates
UpsertStat_only_today(s, d, col, t) ==
    [x \in {d} |->
        IF d \in DOMAIN s THEN [s[d] EXCEPT ![col] = @ + 1, !.last_seen_utc = t]
        ELSE [ZeroStats EXCEPT ![col] = 1, !.last_seen_utc = t]]

\* UpsertStat inserting a new row with every counter at one
UpsertStat_all_ones(s, d, col, t) ==
    IF d \in DOMAIN s
    THEN [s EXCEPT ![d] = [@ EXCEPT ![col] = @ + 1, !.last_seen_utc = t]]
    ELSE [x \in DOMAIN s \cup {d} |->
            IF x = d THEN [views |-> 1, checks |-> 1, solves |-> 1, last_seen_utc |-> t]
            ELSE s[x]]

\* INSERT INTO puzzle_stats (date_utc, <col>, last_seen_utc) VALUES (?, 1, ?)
\* ON CONFLICT(date_utc) DO UPDATE SET <col> = <col> + 1, last_seen_utc = ...
UpsertStat(s, d, col, t) ==
    IF d \in DOMAIN s
    THEN [s EXCEPT ![d] = [@ EXCEPT ![col] = @ + 1, !.last_seen_utc = t]]
    ELSE [x \in DOMAIN s \cup {d} |->
            IF x = d THEN [ZeroStats EXCEPT ![col] = 1, !.last_seen_utc = t]
            ELSE s[x]]

\* SelectPublished without the status filter
SelectPublished_any_status(p, d) == IF d \in DOMAIN p THEN Some(p[d]) ELSE None

\* SELECT ... FROM puzzles WHERE date_utc = ? AND status = 'published'
SelectPublished(p, d) ==
    IF d \in DOMAIN p /\ p[d].status = "published" THEN Some(p[d]) ELSE None

Init ==
    /\ puzzles = << >>
    /\ stats = << >>
    /\ now = 0
    /\ req = [r \in Req |-> Idle]
    /\ nreq = 0
    /\ views_ok = [d \in Days |-> 0]

\* the slot of a request that has been answered: what the handler was, the
\* response, and what the request wrote to the counters
Done(op, resp) == [Idle EXCEPT !.pc = "done", !.op = op, !.resp = resp]

\* a slot is free when it serves no request: it never did, or its response
\* is out; a new request takes the first free slot
Free(r) == req[r].pc \in {"idle", "done"}
Accepts(r) ==
    /\ Free(r)
    /\ \A q \in Req : q < r => ~Free(q)
    /\ nreq < MaxRequests

\* time passes
Tick ==
    /\ now < MaxNow
    /\ now' = now + 1
    /\ UNCHANGED <<puzzles, stats, req, nreq, views_ok>>

\* --------------------------------------------------- POST /api/puzzle/track
TrackEvents == {"view", "solve"}

\* event is the "event" of the request body
track_event_handler(r, event) ==
    /\ Accepts(r)
    /\ nreq' = nreq + 1
    /\ LET today == date_naive(now) IN
         IF event = "view"
         THEN /\ stats' = UpsertStat(stats, today, "views", now_utc_string)
              /\ views_ok' = [views_ok EXCEPT ![today] = @ + 1]
              /\ req' = [req EXCEPT ![r] =
                    Done("track", "no_content")]
         ELSE /\ req' = [req EXCEPT ![r] =
                    Done("track", "bad_request")]
              /\ UNCHANGED <<stats, views_ok>>
    /\ UNCHANGED <<puzzles, now>>

\* --------------------------------------------------- GET /api/puzzle/today
today_puzzle_handler(r) ==
    /\ Accepts(r)
    /\ nreq' = nreq + 1
    /\ LET today == date_naive(now)
           row == SelectPublished(puzzles, today)
       IN req' = [req EXCEPT ![r] =
              Done("today", IF row = None THEN "not_found" ELSE "ok")]
    /\ UNCHANGED <<puzzles, stats, now, views_ok>>

\* --------------------------------------------------- POST /api/puzzle/check
\* the characters a submitted grid is made of: '.', digits, a letter, a blank
DigitChars == <<"0", "1", "2", "3", "4", "5", "6", "7", "8", "9">>
Chr(d) == DigitChars[d + 1]
IsWhite(ch) == ch = " "

\* char::to_digit(10)
to_digit(ch) ==
    IF \E i \in 1..Len(DigitChars) : DigitChars[i] = ch
    THEN Some((CHOOSE i \in 1..Len(DigitChars) : DigitChars[i] = ch) - 1)
    ELSE None

\* str::trim: the leading and trailing white space removed
RECURSIVE trim_start(_)
trim_start(g) ==
    IF g # <<>> /\ IsWhite(Head(g)) THEN trim_start(Tail(g)) ELSE g
RECURSIVE trim_end(_)
trim_end(g) ==
    IF g # <<>> /\ IsWhite(g[Len(g)]) THEN trim_end(SubSeq(g, 1, Len(g) - 1)) ELSE g
trim(g) == trim_end(trim_start(g))

\* parse_solution_from_json: the digits of the stored solution, or None (Err)
parse_solution_from_json(doc) ==
    IF doc.solution = None THEN None
    ELSE LET sol == doc.solution[1] IN
         IF Len(sol) # NN THEN None
         ELSE IF \E i \in 1..NN : as_u64(sol[i]) = None THEN None
         ELSE IF \E i \in 1..NN : as_u64(sol[i])[1] < 1 \/ as_u64(sol[i])[1] > 9 THEN None
         ELSE Some([i \in 1..NN |-> as_u64(sol[i])[1]])

\* compare_from with '0' read as a digit instead of a blank cell
RECURSIVE compare_from_zero_digit(_, _, _, _)
compare_from_zero_digit(grid, solution, idx, incomplete) ==
    IF idx > Len(grid)
    THEN IF incomplete THEN "partial" ELSE "complete"
    ELSE LET ch == grid[idx] IN
         IF ch = "."
         THEN compare_from_zero_digit(grid, solution, idx + 1, TRUE)
         ELSE LET digit == to_digit(ch) IN
              IF digit = None \/ ~(digit[1] \in 1..9) THEN "bad_request"
              ELSE IF digit[1] # solution[idx] THEN "incorrect"
              ELSE compare_from_zero_digit(grid, solution, idx + 1, incomplete)

\* the comparison loop of check_puzzle_handler from cell idx on: the first
\* cell that is neither blank nor a digit 1..9 answers bad_request, the first
\* filled cell that differs from the solution answers incorrect
RECURSIVE compare_from(_, _, _, _)
compare_from(grid, solution, idx, incomplete) ==
    IF idx > Len(grid)
    THEN IF incomplete THEN "partial" ELSE "complete"
    ELSE LET ch == grid[idx] IN
         IF ch = "." \/ ch = "0"
         THEN compare_from(grid, solution, idx + 1, TRUE)
         ELSE LET digit == to_digit(ch) IN
              IF digit = None \/ ~(digit[1] \in 1..9) THEN "bad_request"
              ELSE IF digit[1] # solution[idx] THEN "incorrect"
              ELSE compare_from(grid, solution, idx + 1, incomplete)

compare(grid, solution) == compare_from(grid, solution, 1, FALSE)

\* grids a client submits, by what they are against the reference solution
GridComplete == [i \in 1..NN |-> Chr(RefDigits[i])]
GridPartial == [GridComplete EXCEPT ![NN] = "."]
GridWrong == [GridComplete EXCEPT ![NN] = Chr((RefDigits[NN] % 9) + 1)]
GridBadChar == [GridComplete EXCEPT ![NN] = "x"]
GridShort == SubSeq(GridComplete, 1, NN - 1)
CheckGrids == {GridComplete, GridPartial, GridWrong, GridBadChar, GridShort}

\* the request arrives: the grid is trimmed and its length is checked
check_puzzle_handler_recv(r, grids) ==
    /\ Accepts(r)
    /\ nreq' = nreq + 1
    /\ \E g \in grids :
         LET grid == trim(g) IN
         req' = [req EXCEPT ![r] =
            IF Len(grid) # NN
            THEN [Idle EXCEPT !.pc = "done", !.op = "check", !.grid = grid,
                              !.resp = "bad_request"]
            ELSE [Idle EXCEPT !.pc = "check_select", !.op = "check", !.grid = grid]]
    /\ UNCHANGED <<puzzles, stats, now, views_ok>>

\* today's published puzzle is read and its solution parsed
check_puzzle_handler_select(r) ==
    /\ req[r].pc = "check_select"
    /\ LET today == date_naive(now)
           row == SelectPublished(puzzles, today)
       IN req' = [req EXCEPT ![r] =
            IF row = None
            THEN [@ EXCEPT !.pc = "done", !.resp = "not_found"]
            ELSE IF ~row[1].puzzle_json.json
            THEN [@ EXCEPT !.pc = "done", !.resp = "internal_error"]
            ELSE IF parse_solution_from_json(row[1].puzzle_json) = None
            THEN [@ EXCEPT !.pc = "done", !.resp = "unavailable"]
            ELSE [@ EXCEPT !.pc = "check_upsert", !.date = today,
                           !.sol = parse_solution_from_json(row[1].puzzle_json)[1]]]
    /\ UNCHANGED <<puzzles, stats, now, nreq, views_ok>>

\* check_puzzle_handler_upsert without its INSERT: the check is not counted
check_puzzle_handler_upsert_uncounted(r) ==
    /\ req[r].pc = "check_upsert"
    /\ LET status == compare(req[r].grid, req[r].sol) IN
       req' = [req EXCEPT ![r] =
            IF status = "complete"
            THEN [@ EXCEPT !.pc = "check_solve", !.nchk = @ + 1]
            ELSE [@ EXCEPT !.pc = "done", !.date = 0, !.nchk = @ + 1, !.resp = status]]
    /\ UNCHANGED <<puzzles, stats, now, nreq, views_ok>>

\* the check is counted, then the grid is compared with the solution
check_puzzle_handler_upsert(r) ==
    /\ req[r].pc = "check_upsert"
    /\ stats' = UpsertStat(stats, req[r].date, "checks", now_utc_string)
    /\ LET status == compare(req[r].grid, req[r].sol) IN
       req' = [req EXCEPT ![r] =
            IF status = "complete"
            THEN [@ EXCEPT !.pc = "check_solve", !.nchk = @ + 1]
            ELSE [@ EXCEPT !.pc = "done", !.date = 0, !.nchk = @ + 1, !.resp = status]]
    /\ UNCHANGED <<puzzles, now, nreq, views_ok>>

\* a complete grid: the solve is counted
check_puzzle_handler_solve(r) ==
    /\ req[r].pc = "check_solve"
    /\ stats' = UpsertStat(stats, req[r].date, "solves", now_utc_string)
    /\ req' = [req EXCEPT ![r] =
            [@ EXCEPT !.pc = "done", !.date = 0, !.nslv = @ + 1, !.resp = "complete"]]
    /\ UNCHANGED <<puzzles, now, nreq, views_ok>>

\* ------------------------------------------------ POST /api/admin/puzzles
\* dedupe_variants: each string once, at its first place
RECURSIVE dedupe_from(_, _)
dedupe_from(input, out) ==
    IF input = <<>> THEN out
    ELSE IF \E i \in 1..Len(out) : out[i] = Head(input)
         THEN dedupe_from(Tail(input), out)
         ELSE dedupe_from(Tail(input), Append(out, Head(input)))
\* dedupe_variants keeping each string at its last place
RECURSIVE dedupe_variants_last(_)
dedupe_variants_last(input) ==
    IF input = <<>> THEN <<>>
    ELSE IF \E i \in 2..Len(input) : input[i] = Head(input)
         THEN dedupe_variants_last(Tail(input))
         ELSE <<Head(input)>> \o dedupe_variants_last(Tail(input))

\* dedupe_variants: the loop from the empty output
dedupe_variants(input) == dedupe_from(input, <<>>)

\* variants_from_constraints: the "type" strings of the constraints, deduped
variants_from_constraints(constraints) == dedupe_variants(constraints)

\* parse_puzzle_json: Err for text that is not JSON or has no "puzzle" string
parse_puzzle_json(doc) == IF doc.json /\ doc.puzzle THEN Some(doc) ELSE None

\* AdminCreateRequest without date_utc and overwrite
Body(doc, svg, variants, status, name, author, difficulty) ==
    [puzzle_json |-> doc, svg |-> svg, variants |-> variants, status |-> status,
     name |-> name, author |-> author, difficulty |-> difficulty]
BodyDraft == Body(DocGood, None, None, None, None, None, None)
BodyPublished ==
    Body(DocGood, Some("svg"), Some(<<"thermo", "thermo">>), Some("published"),
         Some("A"), Some("me"), Some(3))
BodyNoSolution ==
    Body(DocNoSolution, Some("svg"), None, Some("published"), Some("B"), None, None)
BodyNotJson == Body(DocNotJson, None, None, None, None, None, None)
\* status is any string the client sends
BodyScheduled ==
    Body(DocGood, Some("svg"), None, Some("scheduled"), Some("C"), None, None)
CreateBodies == {BodyDraft, BodyPublished, BodyNotJson}
Overwrites == {None, Some(TRUE), Some(FALSE)}

\* the row the INSERT of admin_create_handler writes
NewRow(body, svg, variants, status, published_at) ==
    [status |-> status, puzzle_json |-> body.puzzle_json, svg |-> svg,
     render_version |-> 1, title |-> body.name, author |-> body.author,
     difficulty |-> body.difficulty, variants |-> variants,
     published_at_utc |-> published_at]

\* what admin_create_handler computes from a valid body at instant t: the
\* variants sent, or else those of the constraints, deduped; the image sent,
\* or else the rendered one; the status sent, or else draft; published_at
\* only for the status published
InsertedRow(body, t) ==
    LET variants == IF body.variants # None
                    THEN dedupe_variants(body.variants[1])
                    ELSE variants_from_constraints(body.puzzle_json.constraints)
        status == unwrap_or(body.status, "draft")
        published_at == IF status = "published" THEN Some(t) ELSE None
    IN NewRow(body, IF body.svg = None THEN Some("rendered") ELSE body.svg,
              variants, status, published_at)

\* The puzzles table as the store is specified: rows keyed by a unique
\* date_utc, with no condition on the values of the other columns.
StoreAccepts(row) == TRUE

\* UpsertPuzzle with published_at_utc = COALESCE(excluded.published_at_utc,
\* published_at_utc): a replaced row keeps its stamp when the new one has none
UpsertPuzzle_keep_published_at(p, d, row) ==
    [x \in DOMAIN p \cup {d} |->
        IF x # d THEN p[x]
        ELSE IF d \in DOMAIN p /\ row.published_at_utc = None
             THEN [row EXCEPT !.published_at_utc = p[d].published_at_utc]
             ELSE row]

\* INSERT INTO puzzles (...) VALUES (...) ON CONFLICT(date_utc) DO UPDATE SET
\* every written column = excluded.<column>
UpsertPuzzle(p, d, row) ==
    [x \in DOMAIN p \cup {d} |-> IF x = d THEN row ELSE p[x]]

\* SelectExists looking the date up in an empty result
SelectExists_never(p, d) == d \in {}

\* SELECT date_utc FROM puzzles WHERE date_utc = ?
SelectExists(p, d) == d \in DOMAIN p

\* SELECT ... FROM puzzles WHERE date_utc = ?
SelectRow(p, d) == IF d \in DOMAIN p THEN Some(p[d]) ELSE None

\* UpdatePublished with AND status <> 'published' in its WHERE: a published
\* row is left alone
UpdatePublished_once(p, d, t) ==
    IF d \in DOMAIN p /\ p[d].status # "published"
    THEN [p EXCEPT ![d] = [@ EXCEPT !.status = "published", !.published_at_utc = Some(t)]]
    ELSE p

\* UpdatePublished with SET status = 'published' only
UpdatePublished_status_only(p, d, t) ==
    IF d \in DOMAIN p
    THEN [p EXCEPT ![d] = [@ EXCEPT !.status = "published"]]
    ELSE p

\* UPDATE puzzles SET status = 'published', published_at_utc = ? WHERE date_utc = ?
UpdatePublished(p, d, t) ==
    IF d \in DOMAIN p
    THEN [p EXCEPT ![d] = [@ EXCEPT !.status = "published", !.published_at_utc = Some(t)]]
    ELSE p

\* UpdateArchived with published_at_utc = NULL in its SET
UpdateArchived_clear_stamp(p, d) ==
    IF d \in DOMAIN p
    THEN [p EXCEPT ![d] = [@ EXCEPT !.status = "archived", !.published_at_utc = None]]
    ELSE p

\* UPDATE puzzles SET status = 'archived' WHERE date_utc = ?
UpdateArchived(p, d) ==
    IF d \in DOMAIN p THEN [p EXCEPT ![d] = [@ EXCEPT !.status = "archived"]] ELSE p

\* rows_affected() of an UPDATE ... WHERE date_utc = ?
rows_affected(p, d) == IF d \in DOMAIN p THEN 1 ELSE 0

\* ------------------------------------- GET /api/admin/puzzles/{date_utc}
\* admin_get_handler as create, publish and archive call it after their
\* write, for the response: the row is read back.  No operation deletes a
\* row, so the read finds the row the write has just touched.
admin_get_handler(p, d) == IF SelectRow(p, d) = None THEN "not_found" ELSE "ok"

\* the request arrives; overwrite defaults to true, and only overwrite=false
\* looks the date up first
admin_create_handler_recv(r, bodies, overwrites) ==
    /\ Accepts(r)
    /\ nreq' = nreq + 1
    /\ \E d \in Dates, body \in bodies, ov \in overwrites :
         req' = [req EXCEPT ![r] =
            [Idle EXCEPT !.pc = IF unwrap_or(ov, TRUE) THEN "create_insert"
                                ELSE "create_select",
                         !.op = "create", !.date = d, !.ow = ov, !.body = Some(body)]]
    /\ UNCHANGED <<puzzles, stats, now, views_ok>>

\* overwrite=false: a date that has a row is a conflict
admin_create_handler_select(r) ==
    /\ req[r].pc = "create_select"
    /\ req' = [req EXCEPT ![r] =
            IF SelectExists(puzzles, req[r].date)
            THEN Done("create", "conflict")
            ELSE [@ EXCEPT !.pc = "create_insert"]]
    /\ UNCHANGED <<puzzles, stats, now, nreq, views_ok>>

\* the body is validated, the image rendered when none was sent (the renderer
\* may refuse), and the row is inserted or replaced
admin_create_handler_insert(r) ==
    /\ req[r].pc = "create_insert"
    /\ LET body == req[r].body[1]
           parsed == parse_puzzle_json(body.puzzle_json)
       IN
       IF parsed = None
       THEN /\ req' = [req EXCEPT ![r] =
                    Done("create", "bad_request")]
            /\ UNCHANGED puzzles
       ELSE \E rendered \in BOOLEAN :
            IF body.svg = None /\ ~rendered
            THEN /\ req' = [req EXCEPT ![r] = Done("create", "bad_request")]
                 /\ UNCHANGED puzzles
            ELSE IF ~StoreAccepts(InsertedRow(body, now_utc_string))
            THEN /\ req' = [req EXCEPT ![r] = Done("create", "internal_error")]
                 /\ UNCHANGED puzzles
            ELSE /\ puzzles' = UpsertPuzzle(puzzles, req[r].date,
                                            InsertedRow(body, now_utc_string))
                 /\ req' = [req EXCEPT ![r] =
                        Done("create", admin_get_handler(puzzles', req[r].date))]
    /\ UNCHANGED <<stats, now, nreq, views_ok>>

\* ------------------------- POST /api/admin/puzzles/{date_utc}/publish
\* d is the date_utc of the path
admin_publish_handler(r, d) ==
    /\ Accepts(r)
    /\ nreq' = nreq + 1
    /\ puzzles' = UpdatePublished(puzzles, d, now_utc_string)
    /\ req' = [req EXCEPT ![r] =
            IF rows_affected(puzzles, d) = 0
            THEN Done("publish", "not_found")
            ELSE Done("publish", admin_get_handler(puzzles', d))]
    /\ UNCHANGED <<stats, now, views_ok>>

\* ------------------------- POST /api/admin/puzzles/{date_utc}/archive
\* d is the date_utc of the path
admin_archive_handler(r, d) ==
    /\ Accepts(r)
    /\ nreq' = nreq + 1
    /\ puzzles' = UpdateArchived(puzzles, d)
    /\ req' = [req EXCEPT ![r] =
            IF rows_affected(puzzles, d) = 0
            THEN Done("archive", "not_found")
            ELSE Done("archive", admin_get_handler(puzzles', d))]
    /\ UNCHANGED <<stats, now, views_ok>>

\* ---------------------------------------------------------- variant model
\* serde_json::Value beside Num: strings, booleans, arrays and objects (an
\* object is a record of its keys)
JText(t) == [k |-> "text", text |-> t]
JBool(b) == [k |-> "bool", bool |-> b]
JArr(items) == [k |-> "arr", items |-> items]
JObj(fields) == [k |-> "obj", fields |-> fields]
as_str(value) == IF value.k = "text" THEN Some(value.text) ELSE None
as_bool(value) == IF value.k = "bool" THEN Some(value.bool) ELSE None
as_array(value) == IF value.k = "arr" THEN Some(value.items) ELSE None
\* Value::get(key): the member of an object, None for a missing key or a
\* value that is no object
get(value, key) ==
    IF value.k = "obj" /\ key \in DOMAIN value.fields
    THEN Some(value.fields[key]) ELSE None
\* Option::and_then
and_then(o, f(_)) == IF o = None THEN None ELSE f(o[1])

\* Result<T, String>: Ok(x), and Err without its message
Ok(x) == Some(x)
Err == None

\* the width of the sum of VariantSpec::Killer (u8)
U8 == 256

\* VariantSpec
KropkiWhite(a, b) == [kind |-> "kropki_white", a |-> a, b |-> b]
KropkiBlack(a, b) == [kind |-> "kropki_black", a |-> a, b |-> b]
Thermo(path) == [kind |-> "thermo", path |-> path]
Arrow(path) == [kind |-> "arrow", path |-> path]
Killer(cells, sum, no_repeats) ==
    [kind |-> "killer", cells |-> cells, sum |-> sum, no_repeats |-> no_repeats]
King == [kind |-> "king"]
Knight == [kind |-> "knight"]
Queen == [kind |-> "queen"]

\* parse_cell: a [row, col] array of two non-negative integers
parse_cell(value) ==
    LET arr == as_array(value) IN
    IF arr = None THEN Err
    ELSE IF Len(arr[1]) # 2 THEN Err
    ELSE IF as_u64(arr[1][1]) = None \/ as_u64(arr[1][2]) = None THEN Err
    ELSE Ok(<<as_u64(arr[1][1])[1], as_u64(arr[1][2])[1]>>)

\* parse_path: an array of cells, not empty
parse_path(value) ==
    LET arr == as_array(value) IN
    IF arr = None THEN Err
    ELSE IF \E i \in 1..Len(arr[1]) : parse_cell(arr[1][i]) = Err THEN Err
    ELSE IF arr[1] = <<>> THEN Err
    ELSE Ok([i \in 1..Len(arr[1]) |-> parse_cell(arr[1][i])[1]])

\* one element of constraints_from_json: the "type" string selects the
\* fields that are read
constraint_from_json(item) ==
    LET kind == and_then(get(item, "type"), as_str) IN
    IF kind = None THEN Err
    ELSE IF kind[1] \in {"kropki_white", "kropki_black"} THEN
        IF get(item, "a") = None \/ get(item, "b") = None THEN Err
        ELSE LET a == parse_cell(get(item, "a")[1])
                 b == parse_cell(get(item, "b")[1])
             IN IF a = Err \/ b = Err THEN Err
                ELSE IF kind[1] = "kropki_white" THEN Ok(KropkiWhite(a[1], b[1]))
                ELSE Ok(KropkiBlack(a[1], b[1]))
    ELSE IF kind[1] \in {"thermo", "arrow"} THEN
        IF get(item, "path") = None THEN Err
        ELSE LET path == parse_path(get(item, "path")[1]) IN
             IF path = Err THEN Err
             ELSE IF kind[1] = "thermo" THEN Ok(Thermo(path[1]))
             ELSE Ok(Arrow(path[1]))
    ELSE IF kind[1] = "killer" THEN
        IF get(item, "cells") = None THEN Err
        ELSE LET cells == parse_path(get(item, "cells")[1])
                 sum == and_then(get(item, "sum"), as_u64)
                 no_repeats == unwrap_or(and_then(get(item, "no_repeats"), as_bool), TRUE)
             IN IF cells = Err \/ sum = None THEN Err
                ELSE Ok(Killer(cells[1], sum[1] % U8, no_repeats))
    ELSE IF kind[1] = "king" THEN Ok(King)
    ELSE IF kind[1] = "knight" THEN Ok(Knight)
    ELSE IF kind[1] = "queen" THEN Ok(Queen)
    ELSE Err

\* constraints_from_json: every element in order, Err at the first that fails
constraints_from_json(constraints) ==
    IF \E i \in 1..Len(constraints) : constraint_from_json(constraints[i]) = Err
    THEN Err
    ELSE Ok([i \in 1..Len(constraints) |-> constraint_from_json(constraints[i])[1]])

\* normalize_constraints_input: a bare array, or an object with a
\* "constraints" array
normalize_constraints_input(input) ==
    IF as_array(input) # None THEN Ok(as_array(input)[1])
    ELSE IF and_then(get(input, "constraints"), as_array) # None
    THEN Ok(and_then(get(input, "constraints"), as_array)[1])
    ELSE Err

\* json!([r, c])
cell_to_json(cell) == JArr(<<Num(cell[1]), Num(cell[2])>>)
path_to_json(path) == JArr([i \in 1..Len(path) |-> cell_to_json(path[i])])

\* one element of variant_specs_to_json
variant_spec_to_json(spec) ==
    IF spec.kind \in {"kropki_white", "kropki_black"}
    THEN JObj([type |-> JText(spec.kind), a |-> cell_to_json(spec.a),
               b |-> cell_to_json(spec.b)])
    ELSE IF spec.kind \in {"thermo", "arrow"}
    THEN JObj([type |-> JText(spec.kind), path |-> path_to_json(spec.path)])
    ELSE IF spec.kind = "killer"
    THEN JObj([type |-> JText("killer"), cells |-> path_to_json(spec.cells),
               sum |-> Num(spec.sum), no_repeats |-> JBool(spec.no_repeats)])
    ELSE JObj([type |-> JText(spec.kind)])

\* variant_specs_to_json writing the flag of a killer cage under the key
\* "noRepeats"
variant_specs_to_json_camel(specs) ==
    [i \in 1..Len(specs) |->
        IF specs[i].kind = "killer"
        THEN JObj([type |-> JText("killer"), cells |-> path_to_json(specs[i].cells),
                   sum |-> Num(specs[i].sum), noRepeats |-> JBool(specs[i].no_repeats)])
        ELSE variant_spec_to_json(specs[i])]

\* variant_specs_to_json: every variant in order
variant_specs_to_json(specs) ==
    [i \in 1..Len(specs) |-> variant_spec_to_json(specs[i])]

\* variant_kinds: the kind of every variant, once, at its first place
variant_kinds(input) == dedupe_variants([i \in 1..Len(input) |-> input[i].kind])

\* ------------------------------------------------------------- generation
\* SimpleRng: the generator is its seed and what it has drawn.  The seed is
\* the stream of the draws: gen_range takes the next digit of the state in
\* the base of the range, so that every sequence of draws has its seed.
RECURSIVE Factorial(_)
Factorial(n) == IF n <= 1 THEN 1 ELSE n * Factorial(n - 1)
Seeds == 0..(Factorial(NN) - 1)
from_seed(seed) == [seed |-> seed, state |-> seed, draws |-> 0]
\* rng.gen_range(0..n): the value drawn, and the generator after the draw
gen_range(rng, n) == rng.state % n
advance(rng, n) == [rng EXCEPT !.state = @ \div n, !.draws = @ + 1]

\* swap that copies the element at j over the one at i and leaves j
swap_copy(positions, i, j) == [positions EXCEPT ![i + 1] = positions[j + 1]]

\* positions.swap(i, j), indices from 0
swap(positions, i, j) ==
    [positions EXCEPT ![i + 1] = positions[j + 1], ![j + 1] = positions[i + 1]]

\* the loop of shuffle_indices: for i in (1..len).rev()
RECURSIVE shuffle_from(_, _, _)
shuffle_from(rng, positions, i) ==
    IF i < 1 THEN [rng |-> rng, positions |-> positions]
    ELSE LET j == gen_range(rng, i + 1) IN
         shuffle_from(advance(rng, i + 1), swap(positions, i, j), i - 1)

\* shuffle_indices: the generator and the positions after the shuffle
shuffle_indices(rng, positions) ==
    IF Len(positions) <= 1 THEN [rng |-> rng, positions |-> positions]
    ELSE shuffle_from(rng, positions, Len(positions) - 1)

\* puzzle_vec_to_string: a digit for Some(d), '.' for None
puzzle_vec_to_string(puzzle) ==
    [i \in 1..Len(puzzle) |-> IF puzzle[i] = None THEN "." ELSE Chr(puzzle[i][1])]

\* what has_unique_solution_with_specs can find for a grid: load_givens
\* fails, or the engine is asked and says not unique or unique
TrialOutcomes == {"build_error", "not_unique", "unique"}
has_unique_solution_with_specs(outcome) == outcome = "unique"

\* range_error letting a target of NN through
range_error_above(target_clues) == target_clues > NN

\* generate_puzzle_from_solution: target_clues >= NN is the range error
range_error(target_clues) == target_clues >= NN

\* trial_cell restoring the digit 1 instead of the saved digit
trial_cell_restore_one(puzzle, pos, unique) ==
    IF ~unique THEN [puzzle EXCEPT ![pos + 1] = Some(1)]
    ELSE [puzzle EXCEPT ![pos + 1] = None]

\* trial_cell leaving the cell blank whatever the engine found
trial_cell_no_restore(puzzle, pos, unique) == [puzzle EXCEPT ![pos + 1] = None]

\* one trial on the cell at pos: it is blanked, and restored to the saved
\* digit unless the blanked grid has a unique solution
trial_cell(puzzle, pos, unique) ==
    LET saved == puzzle[pos + 1]
        blanked == [puzzle EXCEPT ![pos + 1] = None]
    IN IF ~unique THEN [blanked EXCEPT ![pos + 1] = saved] ELSE blanked

\* puzzle.iter().filter(|c| c.is_some()).count()
clues(puzzle) == Cardinality({i \in 1..Len(puzzle) : puzzle[i] # None})

\* target_reached that never stops the loop
target_reached_never(clues_now, target_clues) == clues_now < 0

\* target_reached stopping only below the target
target_reached_below(clues_now, target_clues) == clues_now < target_clues

\* the loop of generate_puzzle_from_solution breaks at clues_now <= target_clues
target_reached(clues_now, target_clues) == clues_now <= target_clues

\* ----------------------------------- POST /api/admin/puzzles/generate
\* the engine generates a puzzle with the constraints it chose, or fails; the
\* renderer draws it, or fails; the response carries the constraints in
\* their wire form and their kinds
admin_generate_handler(r, lists) ==
    /\ Accepts(r)
    /\ nreq' = nreq + 1
    /\ \E generated \in BOOLEAN, rendered \in BOOLEAN, constraints \in lists :
         req' = [req EXCEPT ![r] =
            IF ~generated \/ ~rendered THEN Done("generate", "internal_error")
            ELSE [pc |-> "done", op |-> "generate", resp |-> "ok",
                  puzzle_constraints |-> constraints,
                  constraints_json |-> variant_specs_to_json(constraints),
                  variants |-> variant_kinds(constraints)]]
    /\ UNCHANGED <<puzzles, stats, now, views_ok>>

\* ---------------------------- POST /api/admin/puzzles/generate/custom
\* The engine is deterministic: with the same variants and the same
\* generator it makes the solution it made before, and finds for a grid
\* what it found before.  These are the solutions made and the findings
\* for a grid in the requests that are in their slots.
engine_made(specs, rng) ==
    {req[q].solution :
        q \in {q \in Req : /\ "solver_rng" \in DOMAIN req[q]
                           /\ req[q].specs = specs /\ req[q].solver_rng = rng}}
engine_found(specs, rng, grid) ==
    UNION {{req[q].trials[i].outcome :
                i \in {i \in 1..Len(req[q].trials) : req[q].trials[i].grid = grid}} :
           q \in {q \in Req : /\ "trials" \in DOMAIN req[q]
                              /\ req[q].specs = specs /\ req[q].rng = rng}}

\* the seed of the response when the request sends none: 0 instead of the
\* seed of the generator
seed_used_default(req_seed, rng) == unwrap_or(req_seed, 0)

\* req.seed.unwrap_or_else(|| rng.seed()): the seed of the response
seed_used(req_seed, rng) == unwrap_or(req_seed, rng.seed)

\* The request arrives: the constraints are normalized and parsed, the
\* generator is made from the seed sent or from a fresh one, and the engine
\* makes a full solution with a copy of the generator, or fails.  loads says
\* whether the engine can load the solution as givens under the variants.
admin_generate_custom_handler_serve(r, inputs, targets, seeds, solutions) ==
    /\ nreq' = nreq + 1
    /\ \E input \in inputs, clue_target \in targets, req_seed \in seeds,
          solved \in BOOLEAN, loads \in BOOLEAN, solution \in solutions :
       \E fresh \in (IF req_seed = None THEN Seeds ELSE {0}) :
         LET constraints == normalize_constraints_input(input)
             specs == IF constraints = Err THEN Err
                      ELSE constraints_from_json(constraints[1])
             rng == IF req_seed = None THEN from_seed(fresh)
                    ELSE from_seed(req_seed[1])
             seed == seed_used(req_seed, rng)
             made == IF specs = Err THEN {} ELSE engine_made(specs[1], rng)
         IN req' = [req EXCEPT ![r] =
              IF specs = Err
              THEN [Done("generate_custom", "bad_request") EXCEPT !.body = Some(input)]
              ELSE IF ~solved
              THEN [Done("generate_custom", "internal_error") EXCEPT !.body = Some(input)]
              ELSE [pc |-> "dig_start", op |-> "generate_custom", resp |-> "none",
                    body |-> Some(input), constraints |-> constraints[1],
                    specs |-> specs[1], seed |-> seed, rng |-> rng,
                    solver_rng |-> rng,
                    clue_target |-> unwrap_or(clue_target, 30),
                    solution |-> IF made = {} THEN solution
                                 ELSE CHOOSE made_before \in made : TRUE,
                    loads |-> loads,
                    puzzle |-> <<>>, positions |-> <<>>, calls |-> 0, asked |-> 0,
                    accepted |-> None, passed |-> {}, judged |-> {},
                    trials |-> <<>>, result |-> None]]
    /\ UNCHANGED <<puzzles, stats, now, views_ok>>

\* the request takes the first free slot
admin_generate_custom_handler_recv(r, inputs, targets, seeds, solutions) ==
    /\ Accepts(r)
    /\ admin_generate_custom_handler_serve(r, inputs, targets, seeds, solutions)

\* a later request that repeats an answered one: the constraints and the
\* clue target that one sent, and the seed its response carries; it takes
\* the next slot, so that both responses can be read
admin_generate_custom_handler_replay(r, solutions) ==
    /\ req[r].pc = "idle"
    /\ nreq < MaxRequests
    /\ \E o \in Req :
         /\ o + 1 = r
         /\ req[o].pc = "done" /\ req[o].op = "generate_custom"
         /\ "result" \in DOMAIN req[o] /\ req[o].result # None
         /\ admin_generate_custom_handler_serve(r, {req[o].body[1]},
                {Some(req[o].clue_target)}, {Some(req[o].result[1].seed)}, solutions)

\* generate_puzzle_from_solution up to its loop: the range check, the full
\* puzzle, the shuffled positions
generate_puzzle_from_solution(r) ==
    /\ req[r].pc = "dig_start"
    /\ LET q == req[r]
           shuffled == shuffle_indices(q.rng, [i \in 1..NN |-> i - 1])
       IN req' = [req EXCEPT ![r] =
            IF range_error(q.clue_target)
            THEN [q EXCEPT !.pc = "done", !.resp = "bad_request"]
            ELSE [q EXCEPT !.pc = "dig_trial",
                           !.puzzle = [i \in 1..NN |-> Some(q.solution[i])],
                           !.positions = shuffled.positions,
                           !.rng = shuffled.rng]]
    /\ UNCHANGED <<puzzles, stats, now, nreq, views_ok>>

\* one turn of the loop: the trial on the next position, the count of the
\* clues, the break.  accepted, passed and judged record what the engine
\* found: the last grid it found unique, the positions blanked by such a
\* finding, the grids it found not unique.
generate_puzzle_from_solution_trial(r) ==
    /\ req[r].pc = "dig_trial"
    /\ req[r].positions # <<>>
    /\ \E outcome \in
            (LET found == engine_found(req[r].specs, req[r].rng,
                            [req[r].puzzle EXCEPT ![Head(req[r].positions) + 1] = None])
             IN IF found # {} THEN found
                ELSE IF req[r].loads THEN TrialOutcomes ELSE {"build_error"}) :
         LET q == req[r]
             pos == Head(q.positions)
             blanked == [q.puzzle EXCEPT ![pos + 1] = None]
             unique == has_unique_solution_with_specs(outcome)
             puzzle == trial_cell(q.puzzle, pos, unique)
             last == target_reached(clues(puzzle), q.clue_target)
                        \/ Tail(q.positions) = <<>>
         IN req' = [req EXCEPT ![r] =
              [q EXCEPT !.pc = IF last THEN "dig_done" ELSE "dig_trial",
                        !.puzzle = puzzle,
                        !.positions = Tail(q.positions),
                        !.calls = @ + 1,
                        !.asked = IF outcome = "build_error" THEN @ ELSE @ + 1,
                        !.accepted = IF unique THEN Some(blanked) ELSE @,
                        !.passed = IF unique THEN @ \cup {pos} ELSE @,
                        !.judged = IF outcome = "not_unique"
                                   THEN @ \cup {blanked} ELSE @,
                        !.trials = Append(@, [pos |-> pos, grid |-> blanked,
                                              outcome |-> outcome])]]
    /\ UNCHANGED <<puzzles, stats, now, nreq, views_ok>>

\* the puzzle text is returned, its clues are counted, the renderer draws
\* it, or fails, and the response is sent
admin_generate_custom_handler_respond(r) ==
    /\ req[r].pc = "dig_done"
    /\ \E rendered \in BOOLEAN :
         LET q == req[r]
             puzzle == puzzle_vec_to_string(q.puzzle)
             clue_count == Cardinality({i \in 1..Len(puzzle) : puzzle[i] # "."})
         IN req' = [req EXCEPT ![r] =
              IF ~rendered THEN [q EXCEPT !.pc = "done", !.resp = "internal_error"]
              ELSE [q EXCEPT !.pc = "done", !.resp = "ok",
                             !.result = Some([puzzle |-> puzzle,
                                              solution |-> q.solution,
                                              clue_count |-> clue_count,
                                              seed |-> q.seed,
                                              constraints |-> q.constraints,
                                              variants |-> variant_kinds(q.specs)])]]
    /\ UNCHANGED <<puzzles, stats, now, nreq, views_ok>>

\* ---------------------------------------------------------- specifications
\* The admin operations on the puzzles table, with the public read.
Next ==
    \/ Tick
    \/ \E r \in Req : today_puzzle_handler(r)
    \/ \E r \in Req : admin_create_handler_recv(r, CreateBodies, Overwrites)
    \/ \E r \in Req : admin_create_handler_select(r)
    \/ \E r \in Req : admin_create_handler_insert(r)
    \/ \E r \in Req, d \in Dates : admin_publish_handler(r, d)
    \/ \E r \in Req, d \in Dates : admin_archive_handler(r, d)

Spec == Init /\ [][Next]_vars

\* The public operations, with the admin operations that decide what they see.
StatsBodies == {BodyPublished, BodyNoSolution}
NextStats ==
    \/ Tick
    \/ \E r \in Req, event \in TrackEvents : track_event_handler(r, event)
    \/ \E r \in Req : today_puzzle_handler(r)
    \/ \E r \in Req : check_puzzle_handler_recv(r, CheckGrids)
    \/ \E r \in Req : check_puzzle_handler_select(r)
    \/ \E r \in Req : check_puzzle_handler_upsert(r)
    \/ \E r \in Req : check_puzzle_handler_solve(r)
    \/ \E r \in Req : admin_create_handler_recv(r, StatsBodies, {None})
    \/ \E r \in Req : admin_create_handler_insert(r)
    \/ \E r \in Req, d \in Dates : admin_publish_handler(r, d)
    \/ \E r \in Req, d \in Dates : admin_archive_handler(r, d)

SpecStats == Init /\ [][NextStats]_vars

\* verifySolve on every grid against every stored solution: the store holds
\* today's puzzle as a create with status published left it, and one request
\* is served.
GridChars == {".", "0", "1", "2", "x", " "}
VerifyGrids == UNION {[1..n -> GridChars] : n \in (NN - 1)..(NN + 1)}
VerifyDocs ==
    {Doc(TRUE, TRUE, Some([i \in 1..NN |-> Num(sol[i])]), <<>>) :
        sol \in [1..NN -> {1, 2}] \cup {[i \in 1..NN |-> 9]}}
    \cup {DocNoSolution, DocShortSolution, DocZeroDigit, DocTenDigit, DocTextDigit,
          Doc(TRUE, TRUE, Some([RefSolution EXCEPT ![NN] = Num(-1)]), <<>>)}

InitVerify ==
    /\ \E doc \in VerifyDocs :
         puzzles = UpsertPuzzle(<< >>, date_naive(0),
            InsertedRow(Body(doc, Some("svg"), None, Some("published"), None, None, None), 0))
    /\ stats = << >>
    /\ now = 0
    /\ req = [r \in Req |-> Idle]
    /\ nreq = MaxRequests - 1
    /\ views_ok = [d \in Days |-> 0]

NextVerify ==
    \/ \E r \in Req : check_puzzle_handler_recv(r, VerifyGrids)
    \/ \E r \in Req : check_puzzle_handler_select(r)
    \/ \E r \in Req : check_puzzle_handler_upsert(r)
    \/ \E r \in Req : check_puzzle_handler_solve(r)

SpecVerify == InitVerify /\ [][NextVerify]_vars

\* The lifecycle of the records: create with every kind of status, publish
\* and archive, as the clock moves.
LifecycleBodies == {BodyDraft, BodyPublished, BodyScheduled}
NextLifecycle ==
    \/ Tick
    \/ \E r \in Req : admin_create_handler_recv(r, LifecycleBodies, {None})
    \/ \E r \in Req : admin_create_handler_insert(r)
    \/ \E r \in Req, d \in Dates : admin_publish_handler(r, d)
    \/ \E r \in Req, d \in Dates : admin_archive_handler(r, d)

SpecLifecycle == Init /\ [][NextLifecycle]_vars

\* one request is served from the empty store
InitOne ==
    /\ puzzles = << >>
    /\ stats = << >>
    /\ now = 0
    /\ req = [r \in Req |-> Idle]
    /\ nreq = MaxRequests - 1
    /\ views_ok = [d \in Days |-> 0]

\* The variant model: lists of up to MaxVariants variants of every kind,
\* their wire forms, and wire forms no list has.
VariantSet ==
    {KropkiWhite(<<0, 1>>, <<1, 1>>), KropkiBlack(<<8, 8>>, <<8, 7>>),
     Thermo(<< <<0, 0>> >>), Thermo(<< <<0, 0>>, <<1, 1>> >>),
     Arrow(<< <<2, 3>>, <<2, 4>> >>),
     Killer(<< <<0, 0>>, <<0, 1>> >>, 3, TRUE), Killer(<< <<4, 4>> >>, 255, FALSE),
     Killer(<< <<4, 4>> >>, 0, TRUE), King, Knight, Queen}
VariantLists == UNION {[1..n -> VariantSet] : n \in 0..MaxVariants}

Cage == path_to_json(<< <<0, 0>>, <<0, 1>> >>)
KillerItem(sum, no_repeats) ==
    JObj([type |-> JText("killer"), cells |-> Cage, sum |-> sum,
          no_repeats |-> no_repeats])
CraftedItems ==
    {KillerItem(Num(300), JBool(FALSE)), KillerItem(Num(U8), JBool(TRUE)),
     KillerItem(Num(7), JText("false")), KillerItem(Num(7), Num(0)),
     KillerItem(JText("12"), JBool(TRUE)), KillerItem(Num(-1), JBool(TRUE)),
     JObj([type |-> JText("killer"), cells |-> Cage, sum |-> Num(7)]),
     JObj([type |-> JText("killer"), cells |-> Cage]),
     JObj([type |-> JText("killer"), sum |-> Num(7)]),
     JObj([type |-> JText("kropki_white"), a |-> cell_to_json(<<0, 0>>)]),
     JObj([type |-> JText("kropki_black"), a |-> cell_to_json(<<0, 0>>),
           b |-> JArr(<<Num(0), Num(1), Num(2)>>)]),
     JObj([type |-> JText("kropki_black"), a |-> cell_to_json(<<0, 0>>),
           b |-> JArr(<<Num(0), Num(-1)>>)]),
     JObj([type |-> JText("thermo"), path |-> JArr(<<>>)]),
     JObj([type |-> JText("arrow"), path |-> Num(1)]),
     JObj([type |-> JText("thermo")]),
     JObj([type |-> JText("bishop")]), JObj([type |-> Num(1)]),
     JObj([path |-> Cage]), Num(1)}
CraftedInputs ==
    {JArr(<<item>>) : item \in CraftedItems}
    \cup {JArr(<<variant_spec_to_json(King), item>>) : item \in CraftedItems}
    \cup {JObj([constraints |-> JArr(variant_specs_to_json(<<King, Queen>>))]),
          JObj([constraints |-> Num(1)]), JObj([variants |-> JArr(<<>>)]), Num(7)}
VariantInputs ==
    {JArr(variant_specs_to_json(v)) : v \in VariantLists} \cup CraftedInputs

\* the lists the engine chooses for a generated puzzle: VariantLists, and
\* the lists of up to MaxKinds of the variants without fields
KindLists == UNION {[1..n -> {King, Knight, Queen}] : n \in 0..MaxKinds}
GeneratedLists == VariantLists \cup KindLists

NextVariants ==
    \/ \E r \in Req : admin_generate_handler(r, GeneratedLists)
    \/ \E r \in Req :
          admin_generate_custom_handler_recv(r, VariantInputs, {Some(NN)}, {Some(0)},
                                             {RefDigits})
    \/ \E r \in Req : generate_puzzle_from_solution(r)

SpecVariants == InitOne /\ [][NextVariants]_vars

\* Digging: every clue target up to NN + 1, every seed, every finding of the
\* engine in every trial.
DigInputs ==
    {JArr(variant_specs_to_json(<<King, Thermo(<< <<0, 0>>, <<0, 1>> >>), King>>)),
     JObj([constraints |-> JArr(<<>>)])}
DigTargets == {Some(t) : t \in 0..(NN + 1)}
DigSeeds == {None} \cup {Some(seed) : seed \in Seeds}
NextDig ==
    \/ \E r \in Req :
          admin_generate_custom_handler_recv(r, DigInputs, DigTargets, DigSeeds,
                                             {RefDigits})
    \/ \E r \in Req : generate_puzzle_from_solution(r)
    \/ \E r \in Req : generate_puzzle_from_solution_trial(r)
    \/ \E r \in Req : admin_generate_custom_handler_respond(r)

SpecDig == InitOne /\ [][NextDig]_vars

\* Replay: a custom generation with any seed, or none, and a second one that
\* repeats it with the seed of its response; the engine makes one of two
\* solutions and finds what it finds.
InitTwo ==
    /\ puzzles = << >>
    /\ stats = << >>
    /\ now = 0
    /\ req = [r \in Req |-> Idle]
    /\ nreq = MaxRequests - 2
    /\ views_ok = [d \in Days |-> 0]

ReplayInputs == {JArr(variant_specs_to_json(<<King, Thermo(<< <<0, 0>>, <<0, 1>> >>)>>))}
ReplayTargets == {Some(t) : t \in 0..(NN - 1)}
ReplaySolutions == {RefDigits, [i \in 1..NN |-> RefDigits[NN + 1 - i]]}
NextReplay ==
    \/ \E r \in Req :
          /\ nreq = MaxRequests - 2
          /\ admin_generate_custom_handler_recv(r, ReplayInputs, ReplayTargets,
                                                DigSeeds, ReplaySolutions)
    \/ \E r \in Req : admin_generate_custom_handler_replay(r, ReplaySolutions)
    \/ \E r \in Req : generate_puzzle_from_solution(r)
    \/ \E r \in Req : generate_puzzle_from_solution_trial(r)
    \/ \E r \in Req : admin_generate_custom_handler_respond(r)

SpecReplay == InitTwo /\ [][NextReplay]_vars

\* shuffle_indices on its own: a call with a list of positions and a
\* generator, and its return
shuffle_indices_call(r) ==
    /\ req[r].pc = "shuffle_start"
    /\ LET shuffled == shuffle_indices(req[r].rng, req[r].input) IN
       req' = [req EXCEPT ![r] =
            [@ EXCEPT !.pc = "done", !.positions = shuffled.positions,
                      !.rng = shuffled.rng]]
    /\ UNCHANGED <<puzzles, stats, now, nreq, views_ok>>

\* Every list of up to NN positions, repeated ones too, with every seed.
ShuffleLists == UNION {[1..n -> 0..(NN - 1)] : n \in 0..NN}
InitShuffle ==
    /\ puzzles = << >>
    /\ stats = << >>
    /\ now = 0
    /\ \E input \in ShuffleLists, seed \in Seeds :
         req = [r \in Req |->
                  IF r = 1
                  THEN [pc |-> "shuffle_start", op |-> "shuffle", resp |-> "none",
                        input |-> input, rng |-> from_seed(seed), positions |-> input]
                  ELSE Idle]
    /\ nreq = MaxRequests
    /\ views_ok = [d \in Days |-> 0]

NextShuffle == \E r \in Req : shuffle_indices_call(r)

SpecShuffle == InitShuffle /\ [][NextShuffle]_vars

\* ------------------------------------------------------------------ claims
Today == date_naive(now)
Views(d) == IF d \in DOMAIN stats THEN stats[d].views ELSE 0
Checks(d) == IF d \in DOMAIN stats THEN stats[d].checks ELSE 0
Solves(d) == IF d \in DOMAIN stats THEN stats[d].solves ELSE 0
StatusOf(p, d) == IF d \in DOMAIN p THEN p[d].status ELSE "absent"
\* slot r takes a step of the request it serves / receives a new request
Steps(r) == req[r].pc \notin {"idle", "done"} /\ req'[r] # req[r]
Receives(r, op) == Accepts(r) /\ nreq' = nreq + 1 /\ req'[r].op = op
Answered(r, op) == req[r].pc = "done" /\ req[r].op = op

\* C1: the views counter of every date equals the number of track requests
\* with event "view" answered for that date, however the requests interleave
\* with each other and with the other writers of the row: no update is lost,
\* whether the row existed or not.
C1_NoLostView == \A d \in Days : Views(d) = views_ok[d]

\* C1 witness: three view events on one date (the first found no row, the
\* others found it) beside a row that a check has written too or not.
C1_Witness == \E d \in Days : views_ok[d] = 3 /\ d \in DOMAIN stats

\* C2: a record whose status is archived stays archived in every step,
\* whatever create, publish or archive request takes it.
C2_ArchivedIsTerminal ==
    [][\A d \in Dates : StatusOf(puzzles, d) = "archived"
                            => StatusOf(puzzles', d) = "archived"]_vars

\* C3: a create with overwrite=false that finds a row for its date answers
\* conflict and leaves the whole puzzles table as it was; a create with
\* overwrite omitted or true never looks the date up, never answers conflict,
\* and when it answers ok the row of its date holds the fields of its body.
C3_OverwriteGuard ==
    [][\A r \in Req :
        LET q == req[r]
            d == q.date
        IN
        /\ (q.pc = "create_select" /\ Steps(r) /\ d \in DOMAIN puzzles)
              => /\ req'[r].pc = "done" /\ req'[r].resp = "conflict"
                 /\ puzzles' = puzzles
        /\ Receives(r, "create")
              => (req'[r].pc = "create_select" <=> req'[r].ow = Some(FALSE))
        /\ (q.op = "create" /\ Steps(r) /\ q.ow # Some(FALSE))
              => /\ req'[r].resp # "conflict"
                 /\ req'[r].resp = "ok" =>
                      /\ d \in DOMAIN puzzles'
                      /\ puzzles'[d].puzzle_json = q.body[1].puzzle_json
                      /\ puzzles'[d].title = q.body[1].name
                      /\ puzzles'[d].author = q.body[1].author
                      /\ puzzles'[d].difficulty = q.body[1].difficulty
                      /\ puzzles'[d].status = unwrap_or(q.body[1].status, "draft")
    ]_vars

\* C3 witness: a create was answered conflict while the date holds a
\* published record.
C3_Witness ==
    \E r \in Req, d \in Dates :
        /\ Answered(r, "create") /\ req[r].resp = "conflict"
        /\ StatusOf(puzzles, d) = "published"

\* C4: a create with overwrite=false writes only to a date that has no row
\* at the moment it writes.
C4_GuardedCreateNeverReplaces ==
    [][\A r \in Req :
        (req[r].pc = "create_insert" /\ req[r].ow = Some(FALSE) /\ Steps(r)
            /\ req'[r].resp = "ok")
        => req[r].date \notin DOMAIN puzzles]_vars

\* C5: a check request answered with a verdict (complete, partial,
\* incorrect or unavailable) has counted one check; answered complete it has
\* counted one solve, answered partial or incorrect none.
C5_VerdictCountsCheck ==
    \A r \in Req :
        Answered(r, "check") =>
            /\ req[r].resp \in {"complete", "partial", "incorrect", "unavailable"}
                  => req[r].nchk = 1
            /\ req[r].resp = "complete" => req[r].nslv = 1
            /\ req[r].resp \in {"partial", "incorrect"} => req[r].nslv = 0

\* C6: the step in which a check request is answered with a format error
\* leaves the puzzle_stats table as it was, and the request has counted
\* neither a check nor a solve.
C6_FormatErrorCountsNothing ==
    [][\A r \in Req :
        (req'[r] # req[r] /\ req'[r].op = "check" /\ req'[r].pc = "done"
            /\ req'[r].resp = "bad_request")
        => (stats' = stats /\ req'[r].nchk = 0 /\ req'[r].nslv = 0)]_vars

\* a stored document whose solution is NN numbers 1..9
ValidSolution(doc) ==
    /\ doc.solution # None
    /\ Len(doc.solution[1]) = NN
    /\ \A i \in 1..NN : doc.solution[1][i].k = "num" /\ doc.solution[1][i].v \in 1..9

\* C7: when the published puzzle of today has no valid solution, the check
\* request that reads it is answered unavailable and the checks counter of
\* today is one higher.
C7_UnavailableIsCounted ==
    [][\A r \in Req :
        (req[r].pc = "check_select" /\ Steps(r)
            /\ StatusOf(puzzles, Today) = "published"
            /\ ~ValidSolution(puzzles[Today].puzzle_json))
        => (req'[r].resp = "unavailable" /\ Checks(Today)' = Checks(Today) + 1)]_vars

\* a grid of NN cells, each blank ('.', '0') or a digit 1..9
BlankChars == {".", "0"}
FilledChars == {Chr(n) : n \in 1..9}
WellFormed(g) == Len(g) = NN /\ \A i \in 1..NN : g[i] \in BlankChars \cup FilledChars
\* the verdict the specification gives a well-formed grid
Expected(g, doc) ==
    IF \E i \in 1..NN : g[i] \in FilledChars /\ g[i] # Chr(doc.solution[1][i].v)
    THEN "incorrect"
    ELSE IF \E i \in 1..NN : g[i] \in BlankChars THEN "partial" ELSE "complete"

\* C8: against a published puzzle with a valid solution, a well-formed grid
\* is answered incorrect iff a filled cell differs from the solution, else
\* partial iff a cell is blank, else complete.
C8_Verdict ==
    \A r \in Req :
        (Answered(r, "check") /\ WellFormed(req[r].grid)
            /\ StatusOf(puzzles, Today) = "published"
            /\ ValidSolution(puzzles[Today].puzzle_json))
        => req[r].resp = Expected(req[r].grid, puzzles[Today].puzzle_json)

\* C8 witness: a grid whose first cell is blank and whose last cell is a
\* wrong digit was answered incorrect.
C8_Witness ==
    \E r \in Req :
        /\ Answered(r, "check") /\ WellFormed(req[r].grid)
        /\ req[r].grid[1] = "." /\ req[r].resp = "incorrect"

\* C9: against a published puzzle with a valid solution, a grid of NN
\* characters one of which is neither blank nor a digit 1..9 is answered
\* with a format error.
C9_BadCharIsFormatError ==
    \A r \in Req :
        (Answered(r, "check") /\ Len(req[r].grid) = NN
            /\ (\E i \in 1..NN : req[r].grid[i] \notin BlankChars \cup FilledChars)
            /\ StatusOf(puzzles, Today) = "published"
            /\ ValidSolution(puzzles[Today].puzzle_json))
        => req[r].resp = "bad_request"

PayloadColumns ==
    {"puzzle_json", "svg", "render_version", "title", "author", "difficulty",
     "variants"}
\* every row but that of date d is as it was, and no row came or went
OthersUnchanged(d) ==
    /\ DOMAIN puzzles' = DOMAIN puzzles
    /\ \A e \in DOMAIN puzzles : e # d => puzzles'[e] = puzzles[e]

\* C11: the step in which a create is answered ok leaves the record of its
\* date with the status of the request, or draft when it names none, and with
\* a published_at_utc that is set (to the current time) exactly when that
\* status is published: a published record replaced by a record of another
\* status has its published_at_utc cleared.
C11_CreateSetsStatusAndStamp ==
    [][\A r \in Req :
        (req[r].pc = "create_insert" /\ Steps(r) /\ req'[r].resp = "ok") =>
            LET d == req[r].date
                status == unwrap_or(req[r].body[1].status, "draft")
            IN /\ d \in DOMAIN puzzles'
               /\ puzzles'[d].status = status
               /\ puzzles'[d].published_at_utc # None <=> status = "published"
               /\ status = "published" =>
                     puzzles'[d].published_at_utc = Some(now_utc_string)
    ]_vars

\* C11 witness: a create was answered ok, and the table holds a draft record
\* without a stamp beside a published record with one.
C11_Witness ==
    \E r \in Req, d, e \in Dates :
        /\ Answered(r, "create") /\ req[r].resp = "ok"
        /\ StatusOf(puzzles, d) = "draft" /\ puzzles[d].published_at_utc = None
        /\ StatusOf(puzzles, e) = "published" /\ puzzles[e].published_at_utc # None

\* C12: a publish of a date without a record is answered not-found and
\* leaves the table as it was; a publish of a date with a record, published
\* already or not, is answered ok and leaves the record published with the
\* current time as its published_at_utc.
C12_Publish ==
    [][\A r \in Req, d \in Dates :
        admin_publish_handler(r, d) =>
            IF d \notin DOMAIN puzzles
            THEN req'[r].resp = "not_found" /\ puzzles' = puzzles
            ELSE /\ req'[r].resp = "ok"
                 /\ d \in DOMAIN puzzles'
                 /\ puzzles'[d].status = "published"
                 /\ puzzles'[d].published_at_utc = Some(now_utc_string)
    ]_vars

\* C12 witness: a publish was answered ok for a record whose stamp is the
\* last instant of the clock.
C12_Witness ==
    \E r \in Req :
        /\ Answered(r, "publish") /\ req[r].resp = "ok"
        /\ \E d \in Dates : /\ StatusOf(puzzles, d) = "published"
                            /\ puzzles[d].published_at_utc = Some(MaxNow)

\* C13: an archive of a date without a record is answered not-found and
\* leaves the table as it was; an archive of a date with a record is
\* answered ok, leaves the record archived, and leaves its published_at_utc,
\* its other columns and every other record as they were.
C13_ArchiveFrame ==
    [][\A r \in Req, d \in Dates :
        admin_archive_handler(r, d) =>
            IF d \notin DOMAIN puzzles
            THEN req'[r].resp = "not_found" /\ puzzles' = puzzles
            ELSE /\ req'[r].resp = "ok"
                 /\ OthersUnchanged(d)
                 /\ puzzles'[d].status = "archived"
                 /\ puzzles'[d].published_at_utc = puzzles[d].published_at_utc
                 /\ \A c \in PayloadColumns : puzzles'[d][c] = puzzles[d][c]
    ]_vars

\* C13 witness: an archive was answered ok for a record that had been
\* published: it is archived and keeps its stamp.
C13_Witness ==
    \E r \in Req :
        /\ Answered(r, "archive") /\ req[r].resp = "ok"
        /\ \E d \in Dates : /\ StatusOf(puzzles, d) = "archived"
                            /\ puzzles[d].published_at_utc # None

\* C14: the status of every record of the puzzles table is draft, published
\* or archived.
C14_StatusInRange ==
    \A d \in DOMAIN puzzles : puzzles[d].status \in {"draft", "published", "archived"}

\* slot r serves a custom generation whose constraints were parsed
Parsed(r) == req[r].op = "generate_custom" /\ "specs" \in DOMAIN req[r]
\* ... and generate_puzzle_from_solution has made its working puzzle
Digging(r) == Parsed(r) /\ req[r].puzzle # <<>>
\* ... and has returned it
Dug(r) == Digging(r) /\ req[r].pc \in {"dig_done", "done"}
FullPuzzle(r) == [i \in 1..NN |-> Some(req[r].solution[i])]

\* C15: with a clue target below NN the loop makes at most NN trials and a
\* trial is possible until it ends; the puzzle returned has at least as many
\* clues as the target, every blank cell of it was blanked by a trial the
\* engine found unique, and the response carries that puzzle and its count.
C15_DigAboveTarget ==
    \A r \in Req :
        (Digging(r) /\ req[r].clue_target < NN) =>
            LET q == req[r] IN
            /\ q.calls <= NN
            /\ q.pc = "dig_trial" => q.positions # <<>>
            /\ Dug(r) =>
                  /\ clues(q.puzzle) >= q.clue_target
                  /\ \A i \in 1..NN : q.puzzle[i] = None => (i - 1) \in q.passed
            /\ q.result # None =>
                  /\ q.result[1].puzzle = puzzle_vec_to_string(q.puzzle)
                  /\ q.result[1].clue_count = clues(q.puzzle)

\* C15 witness: a run with target 1 that used every position, had one
\* removal refused and ended with exactly one clue.
C15_Witness ==
    \E r \in Req :
        /\ Dug(r) /\ req[r].resp = "ok" /\ req[r].clue_target = 1
        /\ req[r].calls = NN /\ req[r].result[1].clue_count = 1

\* C16: while the loop runs and after it the working puzzle is the full
\* solution when the engine has found no grid unique, and else the grid it
\* found unique last; it is never a grid the engine found not unique.
C16_UniquenessKept ==
    \A r \in Req :
        Digging(r) =>
            /\ req[r].puzzle = IF req[r].accepted = None THEN FullPuzzle(r)
                               ELSE req[r].accepted[1]
            /\ req[r].puzzle \notin req[r].judged

\* C16 witness: a puzzle was returned after the engine found one grid not
\* unique and then another unique.
C16_Witness ==
    \E r \in Req :
        /\ Dug(r) /\ req[r].resp = "ok"
        /\ req[r].judged # {} /\ req[r].accepted # None
        /\ \E g \in req[r].judged : clues(g) > clues(req[r].accepted[1])

\* C17: generate_puzzle_from_solution with a clue target of NN or more
\* answers the range error with the generator as it was, no positions
\* shuffled and the engine not called; with a target below NN it goes on to
\* its loop.
C17_RangeError ==
    [][\A r \in Req :
        (req[r].pc = "dig_start" /\ Steps(r)) =>
            IF req[r].clue_target >= NN
            THEN /\ req'[r].pc = "done" /\ req'[r].resp = "bad_request"
                 /\ req'[r].rng = req[r].rng /\ req'[r].rng.draws = 0
                 /\ req'[r].positions = <<>> /\ req'[r].puzzle = <<>>
                 /\ req'[r].calls = 0 /\ req'[r].asked = 0
            ELSE req'[r].pc = "dig_trial"
    ]_vars

\* C17 witness: a request with the target NN was answered the range error.
C17_Witness ==
    \E r \in Req :
        /\ Parsed(r) /\ req[r].pc = "done" /\ req[r].resp = "bad_request"
        /\ req[r].clue_target = NN /\ req[r].rng.draws = 0

\* C18: a custom generation whose variants do not let the engine load the
\* full solution is answered an internal error, and no puzzle is returned.
C18_UnloadableSolutionAborts ==
    \A r \in Req :
        (Parsed(r) /\ ~req[r].loads /\ req[r].clue_target < NN
            /\ req[r].pc = "done")
        => (req[r].resp = "internal_error" /\ req[r].result = None)

\* the wire form of every list of VariantLists, as a request carries it,
\* and for every such wire form the lists it is the wire form of
WireOf == [v \in VariantLists |-> JArr(variant_specs_to_json(v))]
Wires == {WireOf[v] : v \in VariantLists}
\* the lists a wire form is the wire form of; they have its length and its
\* kinds, which is looked at first
ListsOf(w) ==
    {v \in VariantLists :
        /\ Len(v) = Len(w.items)
        /\ \A i \in 1..Len(v) : v[i].kind = w.items[i].fields.type.text
        /\ WireOf[v] = w}

\* C19: a request whose constraints are the wire form of a list of
\* variants is not refused for its constraints, and the variants parsed from
\* it are that list: the same variants in the same order, every cell, path,
\* sum and flag as it was.
C19_RoundTrip ==
    \A r \in Req :
        (req[r].op = "generate_custom" /\ req[r].body[1] \in Wires) =>
            \A v \in ListsOf(req[r].body[1]) :
                /\ ~(req[r].resp = "bad_request" /\ ~Parsed(r))
                /\ Parsed(r) => req[r].specs = v

\* C19 witness: the wire form of a list of MaxVariants variants, among them
\* a killer cage with the sum 255 that lets digits repeat, was parsed.
C19_Witness ==
    \E r \in Req :
        /\ Parsed(r) /\ Len(req[r].specs) = MaxVariants
        /\ req[r].specs \in VariantLists
        /\ req[r].body = Some(WireOf[req[r].specs])
        /\ \E i \in 1..MaxVariants :
              /\ req[r].specs[i].kind = "killer"
              /\ req[r].specs[i].sum = 255 /\ ~req[r].specs[i].no_repeats

\* C20: every killer element of constraints that were accepted has become a
\* killer cage with the sum of the element and, when the element names
\* no_repeats, with that value, which is a boolean.
C20_NoSilentCoercion ==
    \A r \in Req :
        Parsed(r) =>
            \A i \in 1..Len(req[r].constraints) :
                LET item == req[r].constraints[i] IN
                and_then(get(item, "type"), as_str) = Some("killer") =>
                    /\ Some(req[r].specs[i].sum) = and_then(get(item, "sum"), as_u64)
                    /\ get(item, "no_repeats") # None =>
                          and_then(get(item, "no_repeats"), as_bool)
                              = Some(req[r].specs[i].no_repeats)

\* the place of the first occurrence of a kind in a list of variants
FirstPlace(input, kind) ==
    CHOOSE i \in 1..Len(input) :
        input[i].kind = kind /\ \A j \in 1..(i - 1) : input[j].kind # kind

\* C21: the variants of a generated puzzle's response are the kinds of its
\* constraints: every kind that occurs, each once, in the order of their
\* first occurrences.
C21_KindTags ==
    \A r \in Req :
        (req[r].op = "generate" /\ req[r].resp = "ok") =>
            LET input == req[r].puzzle_constraints
                out == req[r].variants
            IN /\ {out[i] : i \in 1..Len(out)} = {input[i].kind : i \in 1..Len(input)}
               /\ \A i, j \in 1..Len(out) : i < j =>
                     /\ out[i] # out[j]
                     /\ FirstPlace(input, out[i]) < FirstPlace(input, out[j])

\* C21 witness: King, Knight, King, Queen was answered king, knight, queen.
C21_Witness ==
    \E r \in Req :
        /\ req[r].op = "generate" /\ req[r].resp = "ok"
        /\ req[r].puzzle_constraints = <<King, Knight, King, Queen>>
        /\ req[r].variants = <<"king", "knight", "queen">>

\* C22: no step takes a row out of puzzle_stats or lowers one of its
\* counters, whatever request takes it.
C22_CountersMonotone ==
    [][\A d \in DOMAIN stats :
          /\ d \in DOMAIN stats'
          /\ stats'[d].views >= stats[d].views
          /\ stats'[d].checks >= stats[d].checks
          /\ stats'[d].solves >= stats[d].solves
    ]_vars

\* C22 witness: a date whose puzzle is in the store has a counter at two.
C22_Witness ==
    \E d \in DOMAIN stats :
        /\ d \in DOMAIN puzzles
        /\ \E col \in {"views", "checks"} : stats[d][col] = 2

\* the effect of one stats event on puzzle_stats: the row of the date is
\* there, made with zero counters if it was not, with one more in the column
\* col and the other counters as they were; the other rows are as they were
Counters == {"views", "checks", "solves"}
Before(d) == IF d \in DOMAIN stats THEN stats[d] ELSE ZeroStats
StatsEvent(d, col) ==
    /\ DOMAIN stats' = DOMAIN stats \cup {d}
    /\ stats'[d][col] = Before(d)[col] + 1
    /\ \A c \in Counters \ {col} : stats'[d][c] = Before(d)[c]
    /\ \A x \in DOMAIN stats \ {d} : stats'[x] = stats[x]

\* C23: a view that is tracked, a check and a solve each are one stats
\* event of their kind on the date of the request; a track request with
\* another event is answered bad request and puzzle_stats stays as it was.
C23_StatsEventFrame ==
    [][\A r \in Req :
          /\ \A event \in TrackEvents :
                track_event_handler(r, event) =>
                    IF event = "view"
                    THEN StatsEvent(Today, "views") /\ req'[r].resp = "no_content"
                    ELSE stats' = stats /\ req'[r].resp = "bad_request"
          /\ (req[r].pc = "check_upsert" /\ Steps(r)) => StatsEvent(req[r].date, "checks")
          /\ (req[r].pc = "check_solve" /\ Steps(r)) => StatsEvent(req[r].date, "solves")
    ]_vars

\* C23 witness: the row of a date was made by a check, a solve and a view
\* were counted on it, one of each.
C23_Witness ==
    \E d \in DOMAIN stats :
        /\ stats[d].views = 1 /\ stats[d].checks = 1 /\ stats[d].solves = 1
        /\ \E r \in Req : Answered(r, "track") /\ req[r].resp = "no_content"

\* how often a value occurs in a list
Occurrences(list, x) == Cardinality({i \in 1..Len(list) : list[i] = x})

\* C24: what shuffle_indices returns has every value as often as the list
\* it was given; a list of no or one position is returned as it was, with
\* nothing drawn from the generator.
C24_ShufflePermutes ==
    \A r \in Req :
        (req[r].op = "shuffle" /\ req[r].pc = "done") =>
            /\ Len(req[r].positions) = Len(req[r].input)
            /\ \A x \in 0..(NN - 1) :
                  Occurrences(req[r].positions, x) = Occurrences(req[r].input, x)
            /\ Len(req[r].input) <= 1 =>
                  /\ req[r].positions = req[r].input
                  /\ req[r].rng = from_seed(req[r].rng.seed)

\* C24 witness: the positions 0 .. NN - 1 came back in another order, the
\* first one moved.
C24_Witness ==
    \E r \in Req :
        /\ req[r].op = "shuffle" /\ req[r].pc = "done"
        /\ req[r].input = [i \in 1..NN |-> i - 1]
        /\ req[r].positions[1] # 0 /\ req[r].positions[NN] # NN - 1
        /\ req[r].rng.draws = NN - 1

\* request r repeats the answered request o: the constraints, the clue
\* target, and the seed of the response of o
Repeats(o, r) ==
    /\ o # r /\ Parsed(o) /\ Parsed(r)
    /\ req[o].pc = "done" /\ req[o].result # None
    /\ req[r].body = req[o].body /\ req[r].specs = req[o].specs
    /\ req[r].clue_target = req[o].clue_target
    /\ req[r].seed = req[o].result[1].seed
IsPrefix(s, t) == Len(s) <= Len(t) /\ SubSeq(t, 1, Len(s)) = s

\* C25: the response of a custom generation carries the seed whose generator
\* the run used; a run that repeats an answered one with that seed (the
\* engine being deterministic) has the same solution, draws the same from
\* the generator, makes the trials of the first run in their order with the
\* same grids and findings, and returns the same puzzle, solution, count
\* and seed.
C25_Replay ==
    /\ \A r \in Req :
          Parsed(r) =>
              /\ req[r].solver_rng = from_seed(req[r].seed)
              /\ req[r].rng.seed = req[r].seed
              /\ req[r].result # None => req[r].result[1].seed = req[r].seed
    /\ \A o, r \in Req :
          Repeats(o, r) =>
              /\ req[r].solution = req[o].solution
              /\ req[r].pc # "dig_start" => req[r].rng = req[o].rng
              /\ IsPrefix(req[r].trials, req[o].trials)
              /\ req[r].pc \in {"dig_done", "done"} => req[r].trials = req[o].trials
              /\ req[r].result # None =>
                    /\ req[r].result[1].puzzle = req[o].result[1].puzzle
                    /\ req[r].result[1].solution = req[o].result[1].solution
                    /\ req[r].result[1].clue_count = req[o].result[1].clue_count
                    /\ req[r].result[1].seed = req[o].result[1].seed

\* C25 witness: a run with another seed than 0 was repeated with the seed of
\* its response; both made NN trials, one of them refused and one accepted,
\* and were answered.
C25_Witness ==
    \E o, r \in Req :
        /\ Repeats(o, r)
        /\ req[r].result # None /\ req[r].seed # 0
        /\ Len(req[r].trials) = NN
        /\ req[r].judged # {} /\ req[r].accepted # None

\* the order shuffle_indices gives the positions with the seed of a request
Order(r) == shuffle_indices(from_seed(req[r].seed), [i \in 1..NN |-> i - 1]).positions
\* the positions tried so far, in the order of their trials
Tried(r) == [i \in 1..Len(req[r].trials) |-> req[r].trials[i].pos]
\* the count of the clues after the first i trials
CluesAfter(r, i) ==
    NN - Cardinality({j \in 1..i : req[r].trials[j].outcome = "unique"})

\* C26: the trials go through the shuffled order from its start, a position
\* is tried once, the engine is called once for a trial and so at most NN
\* times; every trial but the last left more clues than the target, the
\* loop has ended only when a trial left the target or fewer or no position
\* was left, and the positions that were not tried hold their digits.
C26_OrderAndStop ==
    \A r \in Req :
        Digging(r) =>
            LET q == req[r] IN
            /\ Tried(r) \o q.positions = Order(r)
            /\ \A i, j \in 1..Len(q.trials) : i # j => q.trials[i].pos # q.trials[j].pos
            /\ q.calls = Len(q.trials) /\ q.calls <= NN /\ q.asked <= q.calls
            /\ \A i \in 1..(Len(q.trials) - 1) : CluesAfter(r, i) > q.clue_target
            /\ q.pc = "dig_trial" => CluesAfter(r, Len(q.trials)) > q.clue_target
            /\ q.pc \in {"dig_done", "done"} =>
                  \/ CluesAfter(r, Len(q.trials)) <= q.clue_target
                  \/ q.positions = <<>>
            /\ \A i \in 1..Len(q.positions) : q.puzzle[q.positions[i] + 1] # None
            /\ clues(q.puzzle) = CluesAfter(r, Len(q.trials))

\* C26 witness: a run was answered that reached its target with its second
\* trial and left the last position of the order untried.
C26_Witness ==
    \E r \in Req :
        /\ Dug(r) /\ req[r].resp = "ok"
        /\ Len(req[r].trials) = 2 /\ Len(req[r].positions) = NN - 2
        /\ req[r].trials[1].outcome # "unique"
        /\ Order(r) # [i \in 1..NN |-> i - 1]

\* C27: a trial the engine refuses, by finding the grid not unique or by
\* failing to load it, leaves the puzzle as it was before the trial, sets no
\* error response and is followed by the trial of the next position when
\* there is one; a trial the engine accepts blanks the cell under trial and
\* leaves every other cell.
C27_TrialFrame ==
    [][\A r \in Req :
          (req[r].pc = "dig_trial" /\ Steps(r)) =>
              LET pos == Head(req[r].positions)
                  outcome == req'[r].trials[Len(req'[r].trials)].outcome
              IN /\ Len(req'[r].trials) = Len(req[r].trials) + 1
                 /\ outcome # "unique" =>
                       /\ req'[r].puzzle = req[r].puzzle
                       /\ req'[r].resp = "none"
                       /\ Tail(req[r].positions) # <<>> =>
                             /\ req'[r].pc = "dig_trial"
                             /\ req'[r].positions = Tail(req[r].positions)
                 /\ outcome = "unique" =>
                       /\ req'[r].puzzle[pos + 1] = None
                       /\ \A i \in 1..NN :
                             i # pos + 1 => req'[r].puzzle[i] = req[r].puzzle[i]
    ]_vars

\* C27 witness: a run in which the engine failed to load one grid, found
\* another not unique and accepted a third was answered with a puzzle.
C27_Witness ==
    \E r \in Req :
        /\ Dug(r) /\ req[r].resp = "ok" /\ req[r].result # None
        /\ {req[r].trials[i].outcome : i \in 1..Len(req[r].trials)} = TrialOutcomes
        /\ req[r].trials[Len(req[r].trials)].outcome = "unique"

\* C28: a record with the status published has a published_at_utc.
C28_PublishedHasStamp ==
    \A d \in DOMAIN puzzles :
        puzzles[d].status = "published" => puzzles[d].published_at_utc # None

\* C28 witness: a record created as a draft has been published and has its
\* stamp, beside a record that is not published and has none.
C28_Witness ==
    \E d, e \in DOMAIN puzzles :
        /\ puzzles[d].status = "published" /\ puzzles[d].title = None
        /\ puzzles[d].published_at_utc # None
        /\ puzzles[e].status # "published" /\ puzzles[e].published_at_utc = None

====
